---- MODULE Spec2Model ----
(***************************************************************************)
(* A model of the newsletter pipeline of src/curated_newsletter.py         *)
(* (class ExaNewsletter) as it is driven by the request handler of         *)
(* src/mcp_server.py.                                                      *)
(*                                                                         *)
(* Text is modelled as a sequence of one-character strings, so that the    *)
(* regular expressions of the source can be computed position by position. *)
(***************************************************************************)
EXTENDS Integers, Sequences, FiniteSets, TLC

\* Python's None, and the marker of an attribute a provider result lacks.
None == <<"None#">>
Missing == <<"Missing#">>

(***************************************************************************)
(* String helpers                                                          *)
(***************************************************************************)
\* the characters Python's \s and str.strip() treat as whitespace
Spaces == {" ", "\n", "\t", "\r"}

IsSpace(c) == c \in Spaces

\* str.startswith(p) at offset i (1-based)
IsPrefixAt(s, i, p) ==
    /\ i >= 1
    /\ i + Len(p) - 1 <= Len(s)
    /\ \A k \in 1..Len(p) : s[i + k - 1] = p[k]

StartsWith(s, p) == IsPrefixAt(s, 1, p)

\* p in s
Contains(s, p) == \E i \in 1..(Len(s) + 1) : IsPrefixAt(s, i, p)

UpperLetters == <<"A","B","C","D","E","F","G","H","I","J","K","L","M",
                  "N","O","P","Q","R","S","T","U","V","W","X","Y","Z">>
LowerLetters == <<"a","b","c","d","e","f","g","h","i","j","k","l","m",
                  "n","o","p","q","r","s","t","u","v","w","x","y","z">>

LowerChar(c) ==
    IF \E k \in 1..26 : UpperLetters[k] = c
    THEN LowerLetters[CHOOSE k \in 1..26 : UpperLetters[k] = c]
    ELSE c

\* str.lower()
Lower(s) == [i \in 1..Len(s) |-> LowerChar(s[i])]

\* The scans below look for a character that is in the set cs (member TRUE)
\* or is not in it (member FALSE); they recurse once per match, never once
\* per character.
Hit(c, cs, member) == (c \in cs) = member

\* The first index k >= j of s whose character is a hit, or 0.
FirstWhere(s, j, cs, member) ==
    IF \E k \in j..Len(s) : Hit(s[k], cs, member)
    THEN CHOOSE k \in j..Len(s) :
            Hit(s[k], cs, member) /\ \A m \in j..(k - 1) : ~Hit(s[m], cs, member)
    ELSE 0

\* The last index k <= j of s whose character is a hit, or 0.
LastWhere(s, j, cs, member) ==
    IF \E k \in 1..j : Hit(s[k], cs, member)
    THEN CHOOSE k \in 1..j :
            Hit(s[k], cs, member) /\ \A m \in (k + 1)..j : ~Hit(s[m], cs, member)
    ELSE 0

\* The last index of the run of hits that starts at i.
RunOf(s, i, cs, member) ==
    LET stop == FirstWhere(s, i, cs, ~member)
    IN  IF stop = 0 THEN Len(s) ELSE stop - 1

\* str.strip()
Strip(s) ==
    LET first == FirstWhere(s, 1, Spaces, FALSE)
    IN  IF first = 0 THEN <<>>
        ELSE SubSeq(s, first, LastWhere(s, Len(s), Spaces, FALSE))

\* Python truthiness of an optional string: None and '' are falsy
Truthy(x) == x # None /\ x # Missing /\ x # <<>>

(***************************************************************************)
(* _strip_html                                                             *)
(***************************************************************************)
\* The position of the '>' that ends a match of <[^<]+?> whose [^<]+? has
\* consumed s[..j-1]; 0 when there is none. The quantifier is lazy: the
\* first '>' ends the match, a '<' before it makes the match fail.
TagEnd(s, j) ==
    LET k == FirstWhere(s, j, {"<", ">"}, TRUE)
    IN  IF k > 0 /\ s[k] = ">" THEN k ELSE 0

\* A match of <[^<]+?> starting at i: the index of its last character, or 0.
\* [^<]+? takes at least one character, which may itself be '>'.
TagMatch(s, i) ==
    IF s[i] = "<" /\ i + 1 <= Len(s) /\ s[i + 1] # "<"
    THEN TagEnd(s, i + 2)
    ELSE 0

\* The start of the leftmost match of <[^<]+?> at or after i, or 0.
NextTag(s, i) ==
    IF \E k \in i..Len(s) : TagMatch(s, k) > 0
    THEN CHOOSE k \in i..Len(s) :
             TagMatch(s, k) > 0 /\ \A m \in i..(k - 1) : TagMatch(s, m) = 0
    ELSE 0

\* re.sub('<[^<]+?>', '', text): one left-to-right pass over the text, each
\* match removed and the scan resumed right after it
RECURSIVE StripTagsFrom(_, _)
StripTagsFrom(s, i) ==
    LET k == NextTag(s, i)
    IN  IF k = 0 THEN SubSeq(s, i, Len(s))
        ELSE SubSeq(s, i, k - 1) \o StripTagsFrom(s, TagMatch(s, k) + 1)

StripTags(s) == StripTagsFrom(s, 1)

\* re.sub(r'\s+', ' ', text)
RECURSIVE CollapseFrom(_, _)
CollapseFrom(s, i) ==
    LET k == FirstWhere(s, i, Spaces, TRUE)
    IN  IF k = 0 THEN SubSeq(s, i, Len(s))
        ELSE SubSeq(s, i, k - 1) \o <<" ">>
                 \o CollapseFrom(s, RunOf(s, k, Spaces, TRUE) + 1)

CollapseWhitespace(s) == CollapseFrom(s, 1)

\* ExaNewsletter._strip_html
strip_html(text) ==
    IF ~Truthy(text) THEN <<>>
    ELSE Strip(CollapseWhitespace(StripTags(text)))

(***************************************************************************)
(* _create_summary                                                         *)
(***************************************************************************)
ClickPlaceholder ==
    <<"C","l","i","c","k"," ","t","h","e"," ","s","o","u","r","c","e"," ","l","i","n","k"," ","t","o",
      " ","l","e","a","r","n"," ","m","o","r","e"," ","a","b","o","u","t"," ","t","h","i","s"," ","t",
      "o","p","i","c",".">>

DiscussesPrefix ==
    <<"T","h","i","s"," ","a","r","t","i","c","l","e"," ","d","i","s","c","u","s","s","e","s"," ">>

DiscussesSuffix ==
    <<"."," ","T","h","e"," ","c","o","n","t","e","n","t"," ","a","p","p","e","a","r","s"," ","t","o",
      " ","b","e"," ","r","e","l","e","v","a","n","t"," ","t","o"," ","t","h","e"," ","s","e","a","r",
      "c","h"," ","t","o","p","i","c","."," ","C","l","i","c","k"," ","t","h","e"," ","s","o","u","r",
      "c","e"," ","l","i","n","k"," ","t","o"," ","a","c","c","e","s","s"," ","t","h","e"," ","f","u",
      "l","l"," ","i","n","f","o","r","m","a","t","i","o","n",".">>

RelevantPlaceholder ==
    <<"T","h","i","s"," ","a","r","t","i","c","l","e"," ","c","o","n","t","a","i","n","s"," ","r","e",
      "l","e","v","a","n","t"," ","i","n","f","o","r","m","a","t","i","o","n"," ","t","o"," ","t","h",
      "e"," ","s","e","a","r","c","h"," ","t","o","p","i","c","."," ","C","l","i","c","k"," ","t","h",
      "e"," ","s","o","u","r","c","e"," ","l","i","n","k"," ","t","o"," ","a","c","c","e","s","s"," ",
      "t","h","e"," ","c","o","m","p","l","e","t","e"," ","c","o","n","t","e","n","t",".">>

PatPleaseWait ==
    <<"p","l","e","a","s","e"," ","w","a","i","t">>

PatBeingVerified ==
    <<"b","e","i","n","g"," ","v","e","r","i","f","i","e","d">>

PatLoading ==
    <<"l","o","a","d","i","n","g">>

PatAbout ==
    <<"a","b","o","u","t">>

\* the default of the max_sentences parameter
MaxSentences == 5

SentenceEnd == {".", "!", "?"}

\* re.search(r'please wait|being verified|loading', text.lower())
IsLoadingScreen(text) ==
    LET low == Lower(text)
    IN  \/ Contains(low, PatPleaseWait)
        \/ Contains(low, PatBeingVerified)
        \/ Contains(low, PatLoading)

\* the last index of the whitespace run that starts at i
RunEnd(s, i) == RunOf(s, i, Spaces, TRUE)

\* the last index of the run of characters other than '.' that starts at i
NonDotEnd(s, i) == RunOf(s, i, {"."}, FALSE)

\* A match of about\s+([^\.]+) starting at i: the group as <<first, last>>,
\* or <<0, 0>>. \s+ is greedy and gives back one whitespace character to the
\* group when nothing else is left for it.
AboutAt(s, i) ==
    IF ~IsPrefixAt(s, i, PatAbout) THEN <<0, 0>>
    ELSE LET w == i + Len(PatAbout)
         IN  IF w > Len(s) \/ ~IsSpace(s[w]) THEN <<0, 0>>
             ELSE LET e == RunEnd(s, w)
                  IN  IF e + 1 <= Len(s) /\ s[e + 1] # "."
                      THEN <<e + 1, NonDotEnd(s, e + 1)>>
                      ELSE IF e > w THEN <<e, e>>
                      ELSE <<0, 0>>

\* re.search(r'about\s+([^\.]+)', text.lower()): group(1) of the leftmost
\* match, or None
AboutTopic(text) ==
    LET low == Lower(text)
        hits == {i \in 1..Len(low) : IsPrefixAt(low, i, PatAbout)}
        good == {i \in hits : AboutAt(low, i)[1] > 0}
    IN  IF good = {} THEN None
        ELSE LET i == CHOOSE h \in good : \A g \in good : h <= g
                 m == AboutAt(low, i)
             IN  SubSeq(low, m[1], m[2])

\* whitespace at k that follows a sentence end: where (?<=[.!?])\s+ matches
IsSplitPoint(s, k) == IsSpace(s[k]) /\ k > 1 /\ s[k - 1] \in SentenceEnd

\* re.split(r'(?<=[.!?])\s+', text): the pieces of s from index i on
RECURSIVE SplitFrom(_, _)
SplitFrom(s, i) ==
    IF \E k \in i..Len(s) : IsSplitPoint(s, k)
    THEN LET k == CHOOSE k \in i..Len(s) :
                      IsSplitPoint(s, k) /\ \A m \in i..(k - 1) : ~IsSplitPoint(s, m)
         IN  <<SubSeq(s, i, k - 1)>> \o SplitFrom(s, RunEnd(s, k) + 1)
    ELSE <<SubSeq(s, i, Len(s))>>

SplitSentences(s) == SplitFrom(s, 1)

\* ' '.join(parts)
RECURSIVE JoinSpace(_)
JoinSpace(parts) ==
    IF parts = <<>> THEN <<>>
    ELSE IF Len(parts) = 1 THEN parts[1]
    ELSE parts[1] \o <<" ">> \o JoinSpace(Tail(parts))

\* sentences[:n]
Take(parts, n) == SubSeq(parts, 1, IF Len(parts) < n THEN Len(parts) ELSE n)

\* summary.endswith(('.', '!', '?'))
EndsSentence(s) == s # <<>> /\ s[Len(s)] \in SentenceEnd

\* one sentence more than max_sentences is kept
create_summary_one_more(text, max_sentences) ==
    IF ~Truthy(text) \/ Strip(text) = <<>> THEN ClickPlaceholder
    ELSE IF IsLoadingScreen(text)
         THEN LET topic == AboutTopic(text)
              IN  IF topic # None
                  THEN DiscussesPrefix \o Strip(topic) \o DiscussesSuffix
                  ELSE RelevantPlaceholder
         ELSE LET summary == JoinSpace(Take(SplitSentences(text), max_sentences + 1))
              IN  IF EndsSentence(summary) THEN summary ELSE summary \o <<".">>

\* ExaNewsletter._create_summary
create_summary(text, max_sentences) ==
    IF ~Truthy(text) \/ Strip(text) = <<>> THEN ClickPlaceholder
    ELSE IF IsLoadingScreen(text)
         THEN LET topic == AboutTopic(text)
              IN  IF topic # None
                  THEN DiscussesPrefix \o Strip(topic) \o DiscussesSuffix
                  ELSE RelevantPlaceholder
         ELSE LET summary == JoinSpace(Take(SplitSentences(text), max_sentences))
              IN  IF EndsSentence(summary) THEN summary ELSE summary \o <<".">>

(***************************************************************************)
(* _process_markdown                                                       *)
(***************************************************************************)
StrongOpen ==
    <<"<","s","t","r","o","n","g",">">>

StrongClose ==
    <<"<","/","s","t","r","o","n","g",">">>

EmOpen ==
    <<"<","e","m",">">>

EmClose ==
    <<"<","/","e","m",">">>

CodeOpen ==
    <<"<","c","o","d","e",">">>

CodeClose ==
    <<"<","/","c","o","d","e",">">>

\* the character ` (written out, since a TLA+ string cannot hold it)
Backtick == "BACKTICK"

\* the first index >= j holding the delimiter d, or 0
NextDelim(s, j, d) == FirstWhere(s, j, {d}, TRUE)

\* d([^d]+)d matches at i: a delimiter, at least one other character, and
\* the next delimiter
WrapsAt(s, i, d) == s[i] = d /\ NextDelim(s, i + 1, d) >= i + 2

\* re.sub of d([^d]+)d by open \1 close, for a one-character delimiter d
RECURSIVE WrapFrom(_, _, _, _, _)
WrapFrom(s, i, d, open, close) ==
    IF \E k \in i..Len(s) : WrapsAt(s, k, d)
    THEN LET k == CHOOSE k \in i..Len(s) :
                      WrapsAt(s, k, d) /\ \A m \in i..(k - 1) : ~WrapsAt(s, m, d)
             j == NextDelim(s, k + 1, d)
         IN  SubSeq(s, i, k - 1) \o open \o SubSeq(s, k + 1, j - 1) \o close
                 \o WrapFrom(s, j + 1, d, open, close)
    ELSE SubSeq(s, i, Len(s))

\* ExaNewsletter._process_markdown
process_markdown(text) ==
    IF ~Truthy(text) THEN <<>>
    ELSE LET bold == WrapFrom(text, 1, "*", StrongOpen, StrongClose)
             ital == WrapFrom(bold, 1, "_", EmOpen, EmClose)
         IN  WrapFrom(ital, 1, Backtick, CodeOpen, CodeClose)

(***************************************************************************)
(* _process_search_results: one provider result to one stored item         *)
(***************************************************************************)
Untitled ==
    <<"U","n","t","i","t","l","e","d">>

NoneStr ==
    <<"N","o","n","e">>

InfoPrefix ==
    <<"I","n","f","o","r","m","a","t","i","o","n"," ","a","b","o","u","t"," ">>

InfoSuffix ==
    <<"."," ","C","l","i","c","k"," ","t","h","e"," ","s","o","u","r","c","e"," ","l","i","n","k"," ",
      "t","o"," ","l","e","a","r","n"," ","m","o","r","e",".">>

HttpScheme ==
    <<"h","t","t","p",":","/","/">>

HttpsScheme ==
    <<"h","t","t","p","s",":","/","/">>

Http ==
    <<"h","t","t","p">>

SchemeSep ==
    <<":","/","/">>

WwwDot ==
    <<"w","w","w",".">>

FaviconServicePrefix ==
    <<"h","t","t","p","s",":","/","/","w","w","w",".","g","o","o","g","l","e",".","c","o","m","/","s",
      "2","/","f","a","v","i","c","o","n","s","?","d","o","m","a","i","n","=">>

FaviconServiceSuffix ==
    <<"&","s","z","=","6","4">>

DefaultFavicon ==
    <<"c","i","d",":","d","e","f","a","u","l","t","-","f","a","v","i","c","o","n">>

JpgSuffix ==
    <<".","j","p","g">>

\* getattr(result, name, default) of a provider result
Attr(r, name, default) == IF r[name] = Missing THEN default ELSE r[name]

\* how an f-string renders a value: None is written "None"
Format(x) == IF x = None THEN NoneStr ELSE x

\* lines 180-181
ResultUrl(r) == Attr(r, "url", None)
ResultTitle(r) ==
    Attr(r, "title", IF Truthy(ResultUrl(r)) THEN ResultUrl(r) ELSE Untitled)

\* lines 184-185: the excerpt
Snippet(r) == strip_html(Attr(r, "text", <<>>))

\* lines 188-190
CleanSummary(r) ==
    LET summary == Attr(r, "summary", <<>>)
    IN  IF Truthy(summary) THEN strip_html(summary) ELSE summary

\* lines 193-197 without the last alternative: the empty snippet is kept
SummaryShortNoFallback(r) ==
    IF Truthy(CleanSummary(r)) THEN create_summary(CleanSummary(r), MaxSentences)
    ELSE Snippet(r)

\* lines 193-197
SummaryShort(r) ==
    IF Truthy(CleanSummary(r)) THEN create_summary(CleanSummary(r), MaxSentences)
    ELSE IF Truthy(Snippet(r)) THEN create_summary(Snippet(r), MaxSentences)
    ELSE InfoPrefix \o Format(ResultTitle(r)) \o InfoSuffix

\* line 200
ItemSummary(r) == process_markdown(SummaryShort(r))

\* the last index of the run of characters other than '/' that starts at i
NonSlashEnd(s, i) == RunOf(s, i, {"/"}, FALSE)

\* A match of https?://(?:www\.)?([^/]+) starting at i: the group as
\* <<first, last>>, or <<0, 0>>. The optional www. is given back when nothing
\* is left after it for the group.
DomainAt(s, i) ==
    IF ~IsPrefixAt(s, i, Http) THEN <<0, 0>>
    ELSE LET p == IF i + 4 <= Len(s) /\ s[i + 4] = "s" THEN i + 5 ELSE i + 4
         IN  IF ~IsPrefixAt(s, p, SchemeSep) THEN <<0, 0>>
             ELSE LET q == p + 3
                      w == q + 4
                  IN  IF IsPrefixAt(s, q, WwwDot) /\ w <= Len(s) /\ s[w] # "/"
                      THEN <<w, NonSlashEnd(s, w)>>
                      ELSE IF q <= Len(s) /\ s[q] # "/"
                      THEN <<q, NonSlashEnd(s, q)>>
                      ELSE <<0, 0>>

\* lines 207-211: group(1) of the leftmost match in the url, or None
UrlDomain(url) ==
    IF ~Truthy(url) THEN None
    ELSE LET hits == {i \in 1..Len(url) : IsPrefixAt(url, i, Http)}
             good == {i \in hits : DomainAt(url, i)[1] > 0}
         IN  IF good = {} THEN None
             ELSE LET i == CHOOSE h \in good : \A g \in good : h <= g
                      m == DomainAt(url, i)
                  IN  SubSeq(url, m[1], m[2])

\* lines 203-217
ItemFavicon(r) ==
    LET favicon == Attr(r, "favicon", None)
        domain  == UrlDomain(ResultUrl(r))
    IN  IF ~Truthy(favicon)
           \/ ~(StartsWith(favicon, HttpScheme) \/ StartsWith(favicon, HttpsScheme))
        THEN IF Truthy(domain)
             THEN FaviconServicePrefix \o domain \o FaviconServiceSuffix
             ELSE DefaultFavicon
        ELSE favicon

\* a Python list that is not empty
NonEmptyList(x) == x # None /\ x # Missing /\ x # <<>>

\* lines 220-223
ItemImageUrl(r) ==
    LET image == Attr(r, "image", None)
        first == Attr(r, "images", None)
        images == IF NonEmptyList(first) THEN first ELSE Attr(r, "image_urls", None)
    IN  IF Truthy(image) THEN image
        ELSE IF NonEmptyList(images) THEN images[1]
        ELSE None

(***************************************************************************)
(* The temporary directory and download_image                              *)
(***************************************************************************)
\* tempfile.mkdtemp() of the constructor (line 39)
TempDir == <<"/","t","m","p","/","n","l">>

\* the process's working directory, a place outside the temporary directory
WorkDir == <<".">>

Digits == <<"0","1","2","3","4","5","6","7","8","9">>

\* f"{uuid.uuid4()}.jpg": the n-th name drawn; no two draws are equal
UuidName(n) == <<"u", Digits[(n \div 10) + 1], Digits[(n % 10) + 1]>> \o JpgSuffix

\* os.path.join(dir, base), os.path.basename(path), os.path.dirname(path)
PathJoin(dir, base) == <<dir, base>>
Basename(path) == path[2]
Dirname(path) == path[1]

\* What the network and the disk do to one download:
\*   ok_image    status 200, the body is image data
\*   ok_other    status 200, the body is not an image (an HTML error page)
\*   http_error  a status other than 200
\*   net_error   requests.get raises (connection error, timeout)
\*   write_error open() succeeds and f.write raises: a partial file stays
DownloadOutcomes == {"ok_image", "ok_other", "http_error", "net_error", "write_error"}

NoExc == "none"

\* The body of download_image's try block (lines 254-259) on the file system
\* fs = [dirExists, files, nextId]: the value returned, the exception raised
\* and the file system left behind.
DownloadTry(temp_dir, url, dl, fs) ==
    LET img_path == PathJoin(temp_dir, UuidName(fs.nextId))
        drawn    == [fs EXCEPT !.nextId = fs.nextId + 1]
    IN  IF dl = "net_error"
        THEN [ret |-> None, exc |-> "RequestException", fs |-> fs]
        ELSE IF dl = "http_error"
        THEN [ret |-> None, exc |-> NoExc, fs |-> fs]
        ELSE IF temp_dir = TempDir /\ ~fs.dirExists
        THEN [ret |-> None, exc |-> "FileNotFoundError", fs |-> drawn]
        ELSE IF dl = "write_error"
        THEN [ret |-> None, exc |-> "OSError",
              fs  |-> [drawn EXCEPT !.files = fs.files @@ (img_path :> "partial")]]
        ELSE [ret |-> img_path, exc |-> NoExc,
              fs  |-> [drawn EXCEPT !.files = fs.files @@
                          (img_path :> IF dl = "ok_image" THEN "image" ELSE "other")]]

\* download_image without its except clause: the exception reaches the caller
download_image_unguarded(temp_dir, url, dl, fs) == DownloadTry(temp_dir, url, dl, fs)

\* download_image writing next to the program instead of into temp_dir
download_image_workdir(temp_dir, url, dl, fs) ==
    LET t == DownloadTry(WorkDir, url, dl, fs)
    IN  [t EXCEPT !.exc = NoExc]

\* ExaNewsletter.download_image: except Exception logs, and None is returned
download_image(temp_dir, url, dl, fs) ==
    LET t == DownloadTry(temp_dir, url, dl, fs)
    IN  IF t.exc # NoExc THEN [ret |-> None, exc |-> NoExc, fs |-> t.fs] ELSE t

\* lines 232-241: the stored item
Item(r, image_path) ==
    [title     |-> ResultTitle(r),
     excerpt   |-> Snippet(r),
     summary   |-> ItemSummary(r),
     date      |-> <<>>,
     source    |-> ResultUrl(r),
     image     |-> image_path,
     favicon   |-> ItemFavicon(r),
     image_url |-> ItemImageUrl(r)]

\* The loop of _process_search_results (lines 178-241) from result i on, over
\* st = [items, fs, exc]; an exception ends the loop and the call.
RECURSIVE ProcessFrom(_, _, _)
ProcessFrom(results, i, st) ==
    IF i > Len(results) \/ st.exc # NoExc THEN st
    ELSE LET r == results[i]
             d == IF Truthy(ItemImageUrl(r))
                  THEN download_image(TempDir, ItemImageUrl(r), r.dl, st.fs)
                  ELSE [ret |-> None, exc |-> NoExc, fs |-> st.fs]
         IN  IF d.exc # NoExc
             THEN [st EXCEPT !.exc = d.exc, !.fs = d.fs]
             ELSE ProcessFrom(results, i + 1,
                      [items |-> Append(st.items, Item(r, d.ret)),
                       fs    |-> d.fs,
                       exc   |-> NoExc])

process_search_results(results, items, fs) ==
    ProcessFrom(results, 1, [items |-> items, fs |-> fs, exc |-> NoExc])

(***************************************************************************)
(* generate_html_newsletter                                                *)
(***************************************************************************)
CidScheme ==
    <<"c","i","d",":">>

Ellipsis ==
    <<".",".",".">>

\* the excerpt limit of line 307
ExcerptLimit == 300

\* the ellipsis already at the limit
RenderExcerptAtLimit(excerpt) ==
    IF Len(excerpt) >= ExcerptLimit
    THEN SubSeq(excerpt, 1, ExcerptLimit) \o Ellipsis
    ELSE excerpt

\* item['excerpt'][:300] followed by '...' when the excerpt is longer
RenderExcerpt(excerpt) ==
    IF Len(excerpt) > ExcerptLimit
    THEN SubSeq(excerpt, 1, ExcerptLimit) \o Ellipsis
    ELSE excerpt

\* the image element with the remote address preferred to the local file
ImageSrcRemoteFirst(item) ==
    IF Truthy(item.image_url) THEN item.image_url
    ELSE IF Truthy(item.image) THEN CidScheme \o Basename(item.image)
    ELSE None

\* line 309: the src of the item's image element, None when none is emitted
ImageSrc(item) ==
    IF Truthy(item.image) THEN CidScheme \o Basename(item.image)
    ELSE IF Truthy(item.image_url) THEN item.image_url
    ELSE None

\* lines 298-311: one block per item, in the order of self.items. The
\* document is kept as the values the template interpolates.
generate_html_newsletter(its) ==
    [i \in 1..Len(its) |->
        [favicon_src |-> its[i].favicon,
         title       |-> Format(its[i].title),
         summary     |-> its[i].summary,
         excerpt     |-> RenderExcerpt(its[i].excerpt),
         source      |-> Format(its[i].source),
         img_src     |-> ImageSrc(its[i])]]

\* the src attributes of the img elements of a document
ImgSrcs(doc) ==
    {doc[i].favicon_src : i \in 1..Len(doc)}
        \cup {doc[i].img_src : i \in {k \in 1..Len(doc) : doc[k].img_src # None}}

\* the names the document refers to by cid:
CidRefs(doc) ==
    {SubSeq(src, Len(CidScheme) + 1, Len(src)) :
        src \in {x \in ImgSrcs(doc) : StartsWith(x, CidScheme)}}

(***************************************************************************)
(* The client: map_websites_to_rss and send_newsletter_request; the        *)
(* handler's choice of feeds                                               *)
(***************************************************************************)
\* the feed URLs of known_feeds (src/mcp_client.py lines 112-125)
FeedUrls ==
    [nyt |->
        <<"h","t","t","p","s",":","/","/","r","s","s",".","n","y","t","i","m","e","s",".","c","o","m","/",
         "s","e","r","v","i","c","e","s","/","x","m","l","/","r","s","s","/","n","y","t","/","H","o","m",
         "e","P","a","g","e",".","x","m","l">>,
     techcrunch |->
        <<"h","t","t","p","s",":","/","/","t","e","c","h","c","r","u","n","c","h",".","c","o","m","/","f",
         "e","e","d","/">>,
     mashable |->
        <<"h","t","t","p","s",":","/","/","m","a","s","h","a","b","l","e",".","c","o","m","/","f","e","e",
         "d","/">>,
     cnet |->
        <<"h","t","t","p","s",":","/","/","w","w","w",".","c","n","e","t",".","c","o","m","/","r","s","s",
         "/","a","l","l","/">>,
     hindu |->
        <<"h","t","t","p","s",":","/","/","w","w","w",".","t","h","e","h","i","n","d","u",".","c","o","m",
         "/","f","e","e","d","e","r","/","d","e","f","a","u","l","t",".","r","s","s">>,
     toi |->
        <<"h","t","t","p","s",":","/","/","t","i","m","e","s","o","f","i","n","d","i","a",".","i","n","d",
         "i","a","t","i","m","e","s",".","c","o","m","/","r","s","s","f","e","e","d","s","t","o","p","s",
         "t","o","r","i","e","s",".","c","m","s">>]

\* known_feeds (src/mcp_client.py lines 112-125), in insertion order
known_feeds ==
    <<<<<<"n","e","w"," ","y","o","r","k"," ","t","i","m","e","s">>, FeedUrls.nyt>>,
      <<<<"n","y","t">>, FeedUrls.nyt>>,
      <<<<"t","e","c","h","c","r","u","n","c","h">>, FeedUrls.techcrunch>>,
      <<<<"m","a","s","h","a","b","l","e">>, FeedUrls.mashable>>,
      <<<<"c","n","e","t">>, FeedUrls.cnet>>,
      <<<<"t","h","e"," ","h","i","n","d","u">>, FeedUrls.hindu>>,
      <<<<"h","i","n","d","u">>, FeedUrls.hindu>>,
      <<<<"t","h","e"," ","t","i","m","e","s"," ","o","f"," ","i","n","d","i","a">>, FeedUrls.toi>>,
      <<<<"t","i","m","e","s"," ","o","f"," ","i","n","d","i","a">>, FeedUrls.toi>>,
      <<<<"i","n","d","i","a","t","i","m","e","s">>, FeedUrls.toi>>,
      <<<<"i","n","d","i","a"," ","t","i","m","e","s">>, FeedUrls.toi>>,
      <<<<"t","o","i">>, FeedUrls.toi>>>>

\* default_feeds of the handler (src/mcp_server.py lines 19-23)
default_feeds ==
    (<<"t","e","c","h","c","r","u","n","c","h">> :> FeedUrls.techcrunch)
    @@ (<<"m","a","s","h","a","b","l","e">> :> FeedUrls.mashable)
    @@ (<<"c","n","e","t">> :> FeedUrls.cnet)

\* the feed the scraping of an unknown site comes to
DiscoveredFeed ==
    <<"h","t","t","p","s",":","/","/","f","o","o",".","e","x","/","r","s","s">>

\* the feed the language model names for a site
GivenFeed ==
    <<"h","t","t","p","s",":","/","/","f","o","o",".","e","x","/","f","e","e","d">>

\* str.replace(old, ''): the occurrences of old, left to right, removed
RECURSIVE RemoveFrom(_, _, _)
RemoveFrom(s, i, old) ==
    IF \E k \in i..Len(s) : IsPrefixAt(s, k, old)
    THEN LET k == CHOOSE k \in i..Len(s) :
                      IsPrefixAt(s, k, old) /\ \A m \in i..(k - 1) : ~IsPrefixAt(s, m, old)
         IN  SubSeq(s, i, k - 1) \o RemoveFrom(s, k + Len(old), old)
    ELSE SubSeq(s, i, Len(s))

Remove(s, old) == RemoveFrom(s, 1, old)

\* lines 136 and 139: .strip().lower().replace("the ", "").replace(" ", "")
NormName(name) == Remove(Remove(Lower(Strip(name)), <<"t","h","e"," ">>), <<" ">>)

\* line 140
KeyMatches(key, norm_feed_key) ==
    \/ key = norm_feed_key
    \/ Contains(norm_feed_key, key)
    \/ Contains(key, norm_feed_key)

\* the known feeds, in order, that match the key
KnownHits(key) ==
    {j \in 1..Len(known_feeds) : KeyMatches(key, NormName(known_feeds[j][1]))}

\* lines 136-143: the feed of the first known feed that matches, else None
FirstKnown(hits) ==
    IF hits = {} THEN None
    ELSE known_feeds[CHOOSE j \in hits : \A h \in hits : j <= h][2]

KnownFeed(name) == FirstKnown(KnownHits(NormName(name)))

\* What the network answers when a site is looked up. scrape, for
\* find_rss_feed_url: search_error (the search raises), no_homepage (no
\* result link), page_error (the homepage raises), no_link (no feed link
\* element), link. alinks, for the second search of lines 153-177: error,
\* no_homepage, no_link (no anchor with rss in it), link.
Site(name, rss_url, scrape, alinks) ==
    [name |-> name, rss_url |-> rss_url, homepage_url |-> None,
     scrape |-> scrape, alinks |-> alinks]

\* find_rss_feed_url (lines 68-103): every failure comes to None
find_rss_feed_url(site) == IF site.scrape = "link" THEN DiscoveredFeed ELSE None

\* lines 149-177: the second search runs when the first found nothing
SecondSearch(site, rss_url) ==
    IF Truthy(rss_url) THEN rss_url
    ELSE IF site.alinks = "link" THEN DiscoveredFeed
    ELSE None

\* lines 128-181 for one website: the feed it resolves to, or None
ResolveSite(site) ==
    IF Truthy(site.rss_url) THEN site.rss_url
    ELSE IF KnownFeed(site.name) # None THEN KnownFeed(site.name)
    ELSE SecondSearch(site, find_rss_feed_url(site))

\* rss_dict[name] = url; a later entry of the same name replaces an earlier
DictSet(d, name, url) == (name :> url) @@ d

\* the loop of map_websites_to_rss from website i on
RECURSIVE MapFrom(_, _, _)
MapFrom(llm_websites, i, d) ==
    IF i > Len(llm_websites) THEN d
    ELSE MapFrom(llm_websites, i + 1,
             IF Truthy(ResolveSite(llm_websites[i]))
             THEN DictSet(d, llm_websites[i].name, ResolveSite(llm_websites[i]))
             ELSE d)

\* map_websites_to_rss (lines 105-182)
map_websites_to_rss(llm_websites) == MapFrom(llm_websites, 1, <<>>)

\* line 191: "websites": rss_dict if rss_dict else None
PayloadWebsites(d) == IF DOMAIN d # {} THEN [given |-> TRUE, feeds |-> d]
                      ELSE [given |-> FALSE, feeds |-> <<>>]

\* the handler with the default feeds always in use, the requested ones
\* added to them
SelectFeedsMerged(w) == IF w.given THEN w.feeds @@ default_feeds ELSE default_feeds

\* src/mcp_server.py lines 25-28
SelectFeeds(w) ==
    IF w.given /\ Cardinality(DOMAIN w.feeds) > 0 THEN w.feeds ELSE default_feeds

\* CuratedNewsletter.scrape_all_feeds: a feed that cannot be fetched or
\* parsed contributes no item and the run goes on
ScrapeRaises == FALSE

\* the websites the language model extracted, with what the network answers
\* for each
MaxSites == 2

\* the names of the websites considered
SiteNames ==
    [nyt |-> <<"n","y","t">>, hindu |-> <<"T","h","e"," ","H","i","n","d","u">>,
     foo |-> <<"f","o","o">>, bar |-> <<"b","a","r">>]

\* two sites of known_feeds; a site that names its feed, or whose homepage or
\* search results yield one, or whose homepage cannot be read; a site for
\* which nothing is found
Sites ==
    {Site(SiteNames.nyt, None, "no_homepage", "no_homepage"),
     Site(SiteNames.hindu, None, "no_homepage", "no_homepage"),
     Site(SiteNames.foo, GivenFeed, "link", "link"),
     Site(SiteNames.foo, None, "link", "link"),
     Site(SiteNames.foo, None, "no_link", "link"),
     Site(SiteNames.foo, None, "page_error", "no_link"),
     Site(SiteNames.bar, None, "search_error", "error"),
     Site(SiteNames.bar, <<>>, "no_homepage", "no_homepage")}

(***************************************************************************)
(* The state                                                               *)
(***************************************************************************)
VARIABLES
    env,               \* os.getenv: the credentials of the process
    response,          \* what the search provider answers to this run's request
    pc,                \* the request handler: constructed, searched, responded, failed
    searchExc,         \* the exception search_exa raised, NoExc when none
    providerRequests,  \* search requests sent to the provider
    items,             \* self.items
    dirExists,         \* self.temp_dir exists
    files,             \* the files on disk: path -> kind of content
    nextId,            \* the next uuid4 to be drawn
    tasks,             \* the background tasks the handler has added
    sendPc,            \* send_newsletter: idle, attach, done
    sendIdx,           \* the item _attach_images_to_email is at
    msg,               \* the MIME message under construction: its parts
    smtpSessions,      \* SMTP connections opened
    smtpOutcome,       \* what the SMTP session met, "none" before there is one
    sendExc,           \* the exception send_newsletter raised, NoExc when none
    cleanPc,           \* cleanup: idle, remove
    cleanTodo,         \* the files os.walk listed that are still to be removed
    cleanCalls,        \* calls of cleanup started
    cleanExc,          \* the exception the last finished cleanup met inside its try
    cleanRaised,       \* some cleanup call raised to its caller
    cleanedUp,         \* some cleanup call ran to its "Cleaned up" log line
    websites,          \* the client: the websites extracted from the user's request
    clientPc,          \* the client's main: start, mapped, posted, done, failed
    rss_dict,          \* the client: the name -> feed mapping it resolved
    payload,           \* the body of the request the client posted
    feeds,             \* the handler: the feeds it hands to the newsletter
    reply              \* the status of the handler's response, "none" before it

vars == <<env, response, pc, searchExc, providerRequests, items, dirExists, files,
          nextId, tasks, sendPc, sendIdx, msg, smtpSessions, smtpOutcome,
          sendExc, cleanPc, cleanTodo, cleanCalls, cleanExc, cleanRaised, cleanedUp,
          websites, clientPc, rss_dict, payload, feeds, reply>>

searchVars == <<pc, searchExc, providerRequests, items, nextId>>
sendVars == <<tasks, sendPc, sendIdx, msg, smtpSessions, smtpOutcome, sendExc>>
cleanVars == <<cleanPc, cleanTodo, cleanCalls, cleanExc, cleanRaised, cleanedUp>>
fsVars == <<dirExists, files>>
worldVars == <<env, response>>
feedVars == <<websites, clientPc, rss_dict, payload, feeds, reply>>

(***************************************************************************)
(* The runs considered: the environment and the provider's answer          *)
(***************************************************************************)
\* the most results a provider answer holds
MaxResults == 2

\* the most calls of cleanup one run sees
MaxCleanupCalls == 2

ExampleUrl ==
    <<"h","t","t","p","s",":","/","/","e","x","a","m","p","l","e",".","c","o","m","/","a">>

ExampleImageUrl ==
    <<"h","t","t","p","s",":","/","/","i",".","e","x","/","p",".","j","p","g">>

\* a provider result; dl is what its image download will meet
Result(url, title, text, summary, favicon, image, dl) ==
    [url |-> url, title |-> title, text |-> text, summary |-> summary,
     favicon |-> favicon, image |-> image, images |-> None, image_urls |-> None,
     dl |-> dl]

\* no image, or an image whose download meets each of the outcomes
ImageCases ==
    {<<None, "http_error">>} \cup {<<ExampleImageUrl, d>> : d \in DownloadOutcomes}

\* results with a source url and each of the image cases, and results
\* without a source url, with no image or with one that downloads
PipelineResults ==
    {Result(ExampleUrl, <<"T">>, <<"b",".">>, Missing, None, c[1], c[2]) :
        c \in ImageCases}
    \cup {Result(None, <<"T">>, <<"b",".">>, Missing, None, c[1], c[2]) :
        c \in {<<None, "http_error">>, <<ExampleImageUrl, "ok_image">>}}

SeqsUpTo(S, n) == UNION {[1..k -> S] : k \in 0..n}

ProviderError == [error |-> TRUE, results |-> <<>>]

Responses ==
    {ProviderError}
        \cup {[error |-> FALSE, results |-> rs] : rs \in SeqsUpTo(PipelineResults, MaxResults)}

FullEnv ==
    [EXA_API_KEY |-> <<"k">>, EMAIL_USER |-> <<"u">>, EMAIL_APP_PASSWORD |-> <<"p">>]

\* every credential set, and each one absent or empty in turn
Envs ==
    {FullEnv,
     [FullEnv EXCEPT !.EXA_API_KEY = None],
     [FullEnv EXCEPT !.EMAIL_USER = None],
     [FullEnv EXCEPT !.EMAIL_APP_PASSWORD = <<>>]}

\* the state ExaNewsletter.__init__ leaves (lines 34-40)
Constructed ==
    /\ pc = "constructed"
    /\ searchExc = NoExc
    /\ providerRequests = 0
    /\ items = <<>>
    /\ dirExists = TRUE
    /\ files = <<>>
    /\ nextId = 1
    /\ tasks = <<>>
    /\ sendPc = "idle"
    /\ sendIdx = 1
    /\ msg = <<>>
    /\ smtpSessions = 0
    /\ smtpOutcome = "none"
    /\ sendExc = NoExc
    /\ cleanPc = "idle"
    /\ cleanTodo = {}
    /\ cleanCalls = 0
    /\ cleanExc = NoExc
    /\ cleanRaised = FALSE
    /\ cleanedUp = FALSE

\* the client before main runs
ClientStart ==
    /\ clientPc = "start"
    /\ rss_dict = <<>>
    /\ payload = PayloadWebsites(<<>>)
    /\ feeds = <<>>
    /\ reply = "none"

Init ==
    /\ env \in Envs
    /\ response \in Responses
    /\ Constructed
    /\ websites = <<>>
    /\ ClientStart

\* the longest result text, and the longest provider summary, considered
MaxTextLen == 6

MaxSummaryLen == 3

\* markup and Markdown in a result's text
TextAlphabet == {"<", ">", "b", "*"}

\* markup, Markdown, whitespace and sentence ends in a provider summary
SummaryAlphabet == {"<", ">", "b", "*", " ", "."}

\* texts a crawl returns for a page that is still loading
LoadingTexts ==
    {<<"L","o","a","d","i","n","g">>,
     <<"<","b",">","P","l","e","a","s","e"," ","w","a","i","t","<","/","b",">">>,
     <<"l","o","a","d","i","n","g"," ","a","b","o","u","t"," ","*","b","*",".","b">>,
     <<"l","o","a","d","i","n","g"," ","a","b","o","u","t"," ",".">>}

\* One result each: a text of markup with no summary; a summary of markup
\* next to a text that is missing, empty, only a tag or plain, with and
\* without a title and a source url; a loading page.
TextResults(textLen, summaryLen) ==
    {Result(ExampleUrl, <<"T">>, t, Missing, None, None, "http_error") :
        t \in SeqsUpTo(TextAlphabet, textLen) \cup LoadingTexts}
    \cup {Result(u, ti, t, sm, None, None, "http_error") :
            u \in {None, ExampleUrl},
            ti \in {Missing, <<"T">>},
            t \in {Missing, <<>>, <<"<","b",">">>, <<"b">>},
            sm \in {Missing} \cup SeqsUpTo(SummaryAlphabet, summaryLen)}

\* the most sentences a summary or a text holds
MaxSentenceCount == 7

\* n sentences of one character each, ended by p and a space apart; the last
\* one ended when endp
SentenceText(n, p, endp) ==
    [k \in 1..(IF endp THEN 3 * n - 1 ELSE 3 * n - 2) |->
        CASE (k - 1) % 3 = 0 -> Digits[((k - 1) \div 3) + 1]
          [] (k - 1) % 3 = 1 -> p
          [] OTHER -> " "]

\* Results with a summary of one sentence or more next to a text or none;
\* with no summary, an empty one or one of a tag only, next to a text of one
\* sentence or more, an empty text or none; with sentence ends that no
\* whitespace follows, with Markdown and with the words of a loading page.
SentenceResults(maxCount) ==
    {Result(ExampleUrl, <<"T">>, t, SentenceText(n, p, e), None, None, "http_error") :
        t \in {Missing, <<"b">>}, n \in 1..maxCount, p \in SentenceEnd, e \in BOOLEAN}
    \cup {Result(ExampleUrl, ti, SentenceText(n, <<".">>[1], e), sm, None, None, "http_error") :
            ti \in {Missing, <<"T">>}, n \in 1..maxCount, e \in BOOLEAN,
            sm \in {Missing, <<>>, <<"<","b",">">>}}
    \cup {Result(u, ti, t, sm, None, None, "http_error") :
            u \in {None, ExampleUrl}, ti \in {Missing, <<"T">>},
            t \in {Missing, <<>>}, sm \in {Missing, <<"<","b",">">>}}
    \cup {Result(ExampleUrl, <<"T">>, <<"b">>, sm, None, None, "http_error") :
            sm \in {<<"1",".","2","!","3"," ","4">>,
                    <<"*","1","*","."," ","2">>,
                    <<"L","o","a","d","i","n","g","."," ","2">>}}

\* Results with no favicon, an empty one, an absolute one, a relative one,
\* one of a scheme only and one of another scheme, from a source with and
\* without www., under a subdomain, without a path, without a scheme, or
\* from no source.
FaviconResults ==
    {Result(u, <<"T">>, <<"b">>, Missing, f, None, "http_error") :
        u \in {None, Missing, ExampleUrl,
               <<"h","t","t","p","s",":","/","/","w","w","w",".","e","x","a","m","p","l","e",".","c","o","m","/","a">>,
               <<"h","t","t","p",":","/","/","b","l","o","g",".","e","x","a","m","p","l","e",".","c","o","m","/","a">>,
               <<"h","t","t","p","s",":","/","/","e","x","a","m","p","l","e",".","c","o","m">>,
               <<"e","x","a","m","p","l","e",".","c","o","m","/","a">>},
        f \in {None, Missing, <<>>,
               <<"h","t","t","p","s",":","/","/","f",".","e","x","/","i",".","i","c","o">>,
               <<"h","t","t","p",":","/","/","f",".","e","x","/","i",".","i","c","o">>,
               <<"/","f","a","v","i","c","o","n",".","i","c","o">>,
               <<"h","t","t","p","s",":","/","/">>,
               <<"f","t","p",":","/","/","f",".","e","x","/","i">>}}

InitText ==
    /\ env = FullEnv
    /\ response \in {[error |-> FALSE, results |-> <<r>>] :
                        r \in TextResults(MaxTextLen, MaxSummaryLen)
                              \cup SentenceResults(MaxSentenceCount)
                              \cup FaviconResults}
    /\ Constructed
    /\ websites = <<>>
    /\ ClientStart

\* the longest excerpt considered
MaxExcerptLen == 305

\* a text of n characters, no two neighbours equal, that starts at digit o
ExcerptText(n, o) == [k \in 1..n |-> Digits[((k + o) % 10) + 1]]

\* results whose excerpt is as long as the limit of line 307, a little
\* shorter or a little longer, the text plain or behind a tag
ExcerptResults(maxLen) ==
    {Result(ExampleUrl, <<"T">>, t, Missing, None, None, "http_error") :
        t \in {ExcerptText(n, o) : n \in (ExcerptLimit - 2)..maxLen, o \in 0..1}
              \cup {<<"<","b",">">> \o ExcerptText(n, 0) :
                        n \in (ExcerptLimit - 2)..maxLen}}

\* the provider answers with two results whose excerpts are near the limit
InitEnrich ==
    /\ env = FullEnv
    /\ response \in {[error |-> FALSE, results |-> <<r1, r2>>] :
                        r1 \in ExcerptResults(MaxExcerptLen),
                        r2 \in ExcerptResults(MaxExcerptLen)}
    /\ Constructed
    /\ websites = <<>>
    /\ ClientStart

(***************************************************************************)
(* search_exa and the request handler                                      *)
(***************************************************************************)
\* line 144
ExaKeyMissing(e) == ~Truthy(e.EXA_API_KEY)

\* line 169: what the call of _process_search_results leaves behind, st
\* being what the loop over the results came to
SearchReturn(st) ==
    /\ items' = st.items
    /\ dirExists' = st.fs.dirExists
    /\ files' = st.fs.files
    /\ nextId' = st.fs.nextId
    /\ searchExc' = st.exc
    /\ pc' = IF st.exc = NoExc THEN "searched" ELSE "failed"

\* ExaNewsletter.search_exa (lines 139-169), the handler's content gathering
search_exa ==
    /\ pc = "constructed"
    /\ IF ExaKeyMissing(env)
       THEN /\ pc' = "failed"
            /\ searchExc' = "RuntimeError"
            /\ UNCHANGED <<providerRequests, items, nextId, fsVars>>
       ELSE /\ providerRequests' = providerRequests + 1
            /\ IF response.error
               THEN /\ pc' = "failed"
                    /\ searchExc' = "ProviderError"
                    /\ UNCHANGED <<items, nextId, fsVars>>
               ELSE SearchReturn(process_search_results(response.results, items,
                        [dirExists |-> dirExists, files |-> files,
                         nextId |-> nextId]))
    /\ UNCHANGED <<worldVars, feedVars, sendVars, cleanVars>>

\* the handler adds send_newsletter to the background tasks and returns its
\* acknowledgement (src/mcp_server.py lines 32-33)
Respond ==
    /\ pc = "searched"
    /\ tasks' = Append(tasks, "send_newsletter")
    /\ pc' = "responded"
    /\ UNCHANGED <<worldVars, feedVars, searchExc, providerRequests, items, nextId, fsVars,
                   sendPc, sendIdx, msg, smtpSessions, smtpOutcome, sendExc,
                   cleanVars>>

(***************************************************************************)
(* send_newsletter, run as a background task                               *)
(***************************************************************************)
\* line 324: only the first credential is looked at
CredentialsMissingUserOnly(e) == ~Truthy(e.EMAIL_USER)

\* line 324
CredentialsMissing(e) == ~Truthy(e.EMAIL_USER) \/ ~Truthy(e.EMAIL_APP_PASSWORD)

\* lines 339: MIMEText(html_content, 'html')
HtmlPart(doc) == [type |-> "text/html", cid |-> None, payload |-> doc]

\* lines 368-371
ImagePart(path) == [type |-> "image", cid |-> Basename(path), payload |-> path]

\* lines 321-339: the credential check, then the message with its HTML part
SendStart ==
    /\ pc = "responded"
    /\ sendPc = "idle"
    /\ tasks # <<>>
    /\ Head(tasks) = "send_newsletter"
    /\ tasks' = Tail(tasks)
    /\ IF CredentialsMissing(env)
       THEN /\ sendPc' = "done"
            /\ sendExc' = "ValueError"
            /\ UNCHANGED msg
       ELSE /\ sendPc' = "attach"
            /\ msg' = <<HtmlPart(generate_html_newsletter(items))>>
            /\ UNCHANGED sendExc
    /\ UNCHANGED <<worldVars, feedVars, searchVars, fsVars, sendIdx, smtpSessions, smtpOutcome,
                   cleanVars>>

\* the try block with the image type given instead of guessed from the
\* bytes: whatever the file holds is attached
AttachTryUnsniffed(parts, path, fs) ==
    IF ~(path \in DOMAIN fs)
    THEN [parts |-> parts, exc |-> "FileNotFoundError"]
    ELSE [parts |-> Append(parts, ImagePart(path)), exc |-> NoExc]

\* The try block of _attach_images_to_email for one item (lines 366-372):
\* the parts after it and the exception it raised. MIMEImage raises
\* TypeError for bytes in which it recognises no image type.
AttachTry(parts, path, fs) ==
    IF ~(path \in DOMAIN fs)
    THEN [parts |-> parts, exc |-> "FileNotFoundError"]
    ELSE IF fs[path] # "image"
    THEN [parts |-> parts, exc |-> "TypeError"]
    ELSE [parts |-> Append(parts, ImagePart(path)), exc |-> NoExc]

\* one iteration of the loop of _attach_images_to_email (lines 363-374);
\* except Exception logs and the loop goes on
SendAttach ==
    /\ sendPc = "attach"
    /\ sendIdx <= Len(items)
    /\ msg' = IF Truthy(items[sendIdx].image)
              THEN AttachTry(msg, items[sendIdx].image, files).parts
              ELSE msg
    /\ sendIdx' = sendIdx + 1
    /\ UNCHANGED <<worldVars, feedVars, searchVars, fsVars, tasks, sendPc, smtpSessions,
                   smtpOutcome, sendExc, cleanVars>>

\* what the SMTP session of lines 346-350 can meet
SmtpOutcomes == {"sent", "connect_failed", "starttls_failed", "login_failed",
                 "sendmail_failed"}

\* the except clause swallowing the error
SmtpExceptSwallow(outcome) == NoExc

\* lines 352-354: the error is logged and raised again
SmtpExcept(outcome) == IF outcome = "sent" THEN NoExc ELSE "SMTPException"

\* lines 345-354: one SMTP session, whatever its outcome
SendSmtp ==
    /\ sendPc = "attach"
    /\ sendIdx > Len(items)
    /\ \E outcome \in SmtpOutcomes :
          /\ smtpSessions' = smtpSessions + 1
          /\ smtpOutcome' = outcome
          /\ sendExc' = SmtpExcept(outcome)
    /\ sendPc' = "done"
    /\ UNCHANGED <<worldVars, feedVars, searchVars, fsVars, tasks, sendIdx, msg, cleanVars>>

(***************************************************************************)
(* cleanup                                                                 *)
(***************************************************************************)
\* the files of the temporary directory
TempFiles(fs) == {f \in DOMAIN fs : Dirname(f) = TempDir}

\* an except clause that lets everything but a missing file through
CleanupExceptNarrow(exc) == exc \notin {NoExc, "FileNotFoundError"}

\* lines 386-387: does an exception met inside the try reach the caller?
\* except Exception logs it, so none does
CleanupExcept(exc) == FALSE

\* cleanup ends, exc being what its try block met
CleanupEnds(exc) ==
    /\ cleanPc' = "idle"
    /\ cleanTodo' = {}
    /\ cleanExc' = exc
    /\ cleanRaised' = (cleanRaised \/ CleanupExcept(exc))
    /\ cleanedUp' = (cleanedUp \/ exc = NoExc)

\* Cleanup is started by whoever schedules the run's deferred tasks, once the
\* handler has returned; one call at a time. os.walk lists the directory
\* (line 381); a directory that is gone lists nothing.
CleanupStart ==
    /\ pc \in {"responded", "failed"}
    /\ cleanPc = "idle"
    /\ cleanCalls < MaxCleanupCalls
    /\ cleanCalls' = cleanCalls + 1
    /\ cleanPc' = "remove"
    /\ cleanTodo' = IF dirExists THEN TempFiles(files) ELSE {}
    /\ UNCHANGED <<worldVars, feedVars, searchVars, fsVars, sendVars, cleanExc, cleanRaised,
                   cleanedUp>>

\* line 383: os.remove of one listed file, in the order the walk gives; the
\* removal fails when the file is gone or the file system refuses
CleanupRemove ==
    /\ cleanPc = "remove"
    /\ cleanTodo # {}
    /\ \E f \in cleanTodo, refused \in BOOLEAN :
          IF ~(f \in DOMAIN files)
          THEN CleanupEnds("FileNotFoundError") /\ UNCHANGED files
          ELSE IF refused
          THEN CleanupEnds("OSError") /\ UNCHANGED files
          ELSE /\ files' = [g \in DOMAIN files \ {f} |-> files[g]]
               /\ cleanTodo' = cleanTodo \ {f}
               /\ UNCHANGED <<cleanPc, cleanExc, cleanRaised, cleanedUp>>
    /\ UNCHANGED <<worldVars, feedVars, searchVars, dirExists, sendVars, cleanCalls>>

\* lines 384-385: os.rmdir of the directory
CleanupRmdir ==
    /\ cleanPc = "remove"
    /\ cleanTodo = {}
    /\ \E refused \in BOOLEAN :
          IF ~dirExists
          THEN CleanupEnds("FileNotFoundError") /\ UNCHANGED dirExists
          ELSE IF TempFiles(files) # {} \/ refused
          THEN CleanupEnds("OSError") /\ UNCHANGED dirExists
          ELSE CleanupEnds(NoExc) /\ dirExists' = FALSE
    /\ UNCHANGED <<worldVars, feedVars, searchVars, files, sendVars, cleanCalls>>

(***************************************************************************)
(* The client's main and the handler that answers it                       *)
(***************************************************************************)
InitFeed ==
    /\ env = FullEnv
    /\ response = ProviderError
    /\ Constructed
    /\ websites \in SeqsUpTo(Sites, MaxSites)
    /\ ClientStart

\* main, line 203
MapWebsites ==
    /\ clientPc = "start"
    /\ rss_dict' = map_websites_to_rss(websites)
    /\ clientPc' = "mapped"
    /\ UNCHANGED <<worldVars, searchVars, fsVars, sendVars, cleanVars, websites,
                   payload, feeds, reply>>

\* send_newsletter_request, lines 189-193: the request is posted
PostRequest ==
    /\ clientPc = "mapped"
    /\ payload' = PayloadWebsites(rss_dict)
    /\ clientPc' = "posted"
    /\ UNCHANGED <<worldVars, searchVars, fsVars, sendVars, cleanVars, websites,
                   rss_dict, feeds, reply>>

\* generate_and_send_newsletter (src/mcp_server.py lines 16-33) on the
\* posted request
HandleRequest ==
    /\ clientPc = "posted"
    /\ reply = "none"
    /\ pc = "constructed"
    /\ feeds' = SelectFeeds(payload)
    /\ IF ScrapeRaises
       THEN /\ reply' = "500"
            /\ pc' = "failed"
            /\ UNCHANGED tasks
       ELSE /\ tasks' = Append(tasks, "send_newsletter")
            /\ reply' = "200"
            /\ pc' = "responded"
    /\ UNCHANGED <<worldVars, searchExc, providerRequests, items, nextId, fsVars,
                   sendPc, sendIdx, msg, smtpSessions, smtpOutcome, sendExc,
                   cleanVars, websites, clientPc, rss_dict, payload>>

\* send_newsletter_request, lines 194-195: raise_for_status, then the reply
ReceiveReply ==
    /\ clientPc = "posted"
    /\ reply # "none"
    /\ clientPc' = IF reply = "200" THEN "done" ELSE "failed"
    /\ UNCHANGED <<worldVars, searchVars, fsVars, sendVars, cleanVars, websites,
                   rss_dict, payload, feeds, reply>>

(***************************************************************************)
(* Specifications                                                          *)
(***************************************************************************)
\* the run as src/mcp_server.py wires it: content gathering, the
\* acknowledgement, then send_newsletter in the background
ServerNext == search_exa \/ Respond \/ SendStart \/ SendAttach \/ SendSmtp

ServerSpec == Init /\ [][ServerNext]_vars

\* the same run with cleanup invoked as a further deferred task
Next ==
    \/ search_exa \/ Respond \/ SendStart \/ SendAttach \/ SendSmtp
    \/ CleanupStart \/ CleanupRemove \/ CleanupRmdir

Spec == Init /\ [][Next]_vars

\* content gathering alone, over the texts and summaries of one result
TextSpec == InitText /\ [][search_exa]_vars

\* the client's request: its websites resolved, posted, handled and answered
FeedNext == MapWebsites \/ PostRequest \/ HandleRequest \/ ReceiveReply

FeedSpec == InitFeed /\ [][FeedNext]_vars

\* the handler's run on results chosen for what is stored and rendered of them
EnrichSpec == InitEnrich /\ [][ServerNext]_vars

(***************************************************************************)
(* Properties                                                              *)
(***************************************************************************)
\* the items that hold a downloaded image
WithImage == {i \in 1..Len(items) : Truthy(items[i].image)}

\* the message is complete: _attach_images_to_email has gone through the items
MessageBuilt == msg # <<>> /\ sendIdx > Len(items)

\* the Content-IDs of the inline attachments of the message
ContentIds == {msg[k].cid : k \in 2..Len(msg)}

\* C1: in a run that produced at least one local image, every cid: reference
\* of the HTML part (image and favicon references alike) names the Content-ID
\* of an inline attachment of the message send_newsletter built.
C1CidConsistency ==
    (MessageBuilt /\ WithImage # {}) => CidRefs(msg[1].payload) \subseteq ContentIds

CleanupReturned == cleanCalls > 0 /\ cleanPc = "idle"

C4TempDirReleased ==
    (sendPc = "done" /\ ~ENABLED ServerNext) => (~dirExists /\ TempFiles(files) = {})

\* C5: with EXA_API_KEY absent search_exa raises before any provider request
\* and appends no item; with EMAIL_USER or EMAIL_APP_PASSWORD absent
\* send_newsletter raises before any SMTP connection and before any message
\* is built.
C5CredentialsBeforeIO ==
    /\ (~Truthy(env.EXA_API_KEY) /\ pc # "constructed") =>
            /\ searchExc = "RuntimeError"
            /\ providerRequests = 0
            /\ items = <<>>
    /\ (~Truthy(env.EMAIL_USER) \/ ~Truthy(env.EMAIL_APP_PASSWORD)) =>
            /\ smtpSessions = 0
            /\ msg = <<>>
            /\ sendPc \in {"idle", "done"}
            /\ sendPc = "done" => sendExc = "ValueError"

\* send_newsletter was called with items gathered and the password empty
C5Witness ==
    /\ sendPc = "done"
    /\ env.EMAIL_APP_PASSWORD = <<>>
    /\ sendExc = "ValueError"
    /\ items # <<>>

\* C6: a failure of the SMTP session is raised to the caller after that one
\* session, and no step of send_newsletter changes the items or the files.
C6SmtpFailureReraised ==
    /\ [](smtpOutcome \notin {"none", "sent"} =>
            /\ sendExc = "SMTPException"
            /\ sendPc = "done"
            /\ smtpSessions = 1)
    /\ [][sendPc' # "idle" =>
            /\ items' = items
            /\ files' = files
            /\ dirExists' = dirExists]_vars

\* the login failed in a run that holds a downloaded image
C6Witness ==
    /\ smtpOutcome = "login_failed"
    /\ sendExc = "SMTPException"
    /\ WithImage # {}
    /\ \A i \in WithImage : items[i].image \in DOMAIN files

\* C7: no call of cleanup raises to its caller.
C7CleanupNeverRaises == ~cleanRaised

\* cleanup was called a second time with the directory already gone
C7Witness ==
    /\ cleanCalls = 2
    /\ cleanPc = "idle"
    /\ cleanedUp
    /\ ~dirExists
    /\ cleanExc = "FileNotFoundError"

\* the download of result r fails
DownloadFails(r) == Truthy(r.image) /\ r.dl \notin {"ok_image", "ok_other"}

\* C8: when the provider answered, _process_search_results raises nothing and
\* stores one item per result; the item of a result whose image download
\* failed has no image and keeps the image's url.
C8DownloadFailureDegrades ==
    (pc # "constructed" /\ Truthy(env.EXA_API_KEY) /\ ~response.error) =>
        /\ searchExc = NoExc
        /\ Len(items) = Len(response.results)
        /\ \A i \in 1..Len(items) :
              DownloadFails(response.results[i]) =>
                  /\ items[i].image = None
                  /\ items[i].image_url = response.results[i].image

\* the first download could not be written, and the second result was stored
C8Witness ==
    /\ pc = "searched"
    /\ Len(items) = 2
    /\ response.results[1].image = ExampleImageUrl
    /\ response.results[1].dl = "write_error"
    /\ items[1].image = None
    /\ Truthy(items[2].image)

\* C9: every stored item has a non-empty summary.
C9SummaryNonEmpty == \A i \in 1..Len(items) : items[i].summary # <<>>

\* text and summary are only a tag, the title is missing
C9Witness ==
    /\ Len(items) = 1
    /\ response.results[1].text = <<"<","b",">">>
    /\ response.results[1].summary = <<"<","b",">">>
    /\ response.results[1].title = Missing
    /\ items[1].excerpt = <<>>
    /\ items[1].summary # <<>>

\* some <...> tag is in s
HasTag(s) == \E i \in 1..Len(s) : TagMatch(s, i) > 0

\* C10: for a result whose text or summary holds a tag, neither the excerpt
\* nor the summary stored for the item holds one.
C10NoMarkupTags ==
    \A i \in 1..Len(items) :
        (\/ HasTag(Attr(response.results[i], "text", <<>>))
         \/ HasTag(Attr(response.results[i], "summary", <<>>))) =>
            /\ ~HasTag(items[i].excerpt)
            /\ ~HasTag(items[i].summary)

\* the cleaned text a result's summary is made from: the provider summary
\* when cleaning leaves some of it, else the excerpt
SummarySource(r) == IF Truthy(CleanSummary(r)) THEN CleanSummary(r) ELSE Snippet(r)

\* C11: when the cleaned text the summary is made from holds "please wait",
\* "being verified" or "loading" in any case, the item's summary is the
\* generic placeholder, and so holds nothing of that text.
C11LoadingScreenPlaceholder ==
    \A i \in 1..Len(items) :
        IsLoadingScreen(SummarySource(response.results[i])) =>
            items[i].summary = RelevantPlaceholder

\* the items whose image file is on disk and holds image data
Attachable ==
    {i \in WithImage : items[i].image \in DOMAIN files /\ files[items[i].image] = "image"}

\* the item, among those of the set S, whose image part k of the message is
ItemOfPart(k, S) == CHOOSE i \in S : Basename(items[i].image) = msg[k].cid

\* The message is the HTML part followed by one inline image part for each
\* item of S, in item order, each with the base name of the item's file as
\* its Content-ID, the Content-IDs pairwise distinct.
OnePartPerItem(S) ==
    /\ msg[1].type = "text/html"
    /\ msg[1].payload = generate_html_newsletter(items)
    /\ Len(msg) = 1 + Cardinality(S)
    /\ \A k \in 2..Len(msg) :
          /\ msg[k].type = "image"
          /\ \E i \in S : Basename(items[i].image) = msg[k].cid
    /\ \A k, l \in 2..Len(msg) :
          k < l => /\ msg[k].cid # msg[l].cid
                   /\ ItemOfPart(k, S) < ItemOfPart(l, S)

\* C12 as stated: the built message is the HTML part followed by exactly one
\* inline image part for each item that has a local image file, in item
\* order, with the file's base name as Content-ID, all distinct.
C12MessageStructure == MessageBuilt => OnePartPerItem(WithImage)

\* C12 amended: the same, with one part for each item whose local image file
\* can be read and holds image data when it is attached; an item whose file
\* is missing or holds something else contributes no part.
C12MessageStructureAmended == MessageBuilt => OnePartPerItem(Attachable)

\* two items with an image each, both attached
C12Witness ==
    /\ MessageBuilt
    /\ Cardinality(Attachable) = 2
    /\ Len(msg) = 3
    /\ msg[2].cid = Basename(items[1].image)
    /\ msg[3].cid = Basename(items[2].image)

\* the requested websites for which the resolver yields a feed URL
Resolved == {i \in 1..Len(websites) : Truthy(ResolveSite(websites[i]))}

\* the feeds in use are requested sources that resolved, with a feed each
\* that the resolver yielded for a source of that name
FeedsOfResolved ==
    \A n \in DOMAIN feeds :
        \E i \in Resolved : websites[i].name = n /\ feeds[n] = ResolveSite(websites[i])

\* C13 as stated: whichever requested sources the resolver yields no feed for,
\* none of them included, the request succeeds and the feeds the handler uses
\* are among the requested sources that resolved.
C13FeedsSubsetOfResolved ==
    reply # "none" => reply = "200" /\ clientPc # "failed" /\ FeedsOfResolved

\* C13 amended: the request succeeds whichever sources fail to resolve; when
\* at least one requested source resolves, the feeds the handler uses are
\* among the requested sources that resolved, and when none does the handler
\* uses its built-in default feeds.
C13FeedsSubsetOfResolvedAmended ==
    reply # "none" =>
        /\ reply = "200"
        /\ clientPc # "failed"
        /\ IF Resolved # {} THEN FeedsOfResolved /\ feeds # <<>>
           ELSE feeds = default_feeds

\* of two requested sources one resolved and one did not, and the client has
\* the handler's answer
C13Witness ==
    /\ clientPc = "done"
    /\ Len(websites) = 2
    /\ Cardinality(Resolved) = 1
    /\ DOMAIN feeds = {websites[i].name : i \in Resolved}
    /\ \E i \in 1..2 : websites[i].name \notin DOMAIN feeds


\* the HTML part of the message: the document send_newsletter generated
Html == msg[1].payload

\* C14: the document has one block per item, in the order of self.items, and
\* the block's image element refers by cid: to the base name of the item's
\* local image when it has one, else to the remote image URL when one is
\* recorded, else there is no image element.
C14ImagePreference ==
    MessageBuilt =>
        /\ Len(Html) = Len(items)
        /\ \A i \in 1..Len(items) :
            /\ Html[i].title = Format(items[i].title)
            /\ Html[i].summary = items[i].summary
            /\ Html[i].source = Format(items[i].source)
            /\ items[i].image # None =>
                Html[i].img_src = <<"c","i","d",":">> \o items[i].image[2]
            /\ (items[i].image = None /\ items[i].image_url \notin {None, <<>>}) =>
                Html[i].img_src = items[i].image_url
            /\ (items[i].image = None /\ items[i].image_url \in {None, <<>>}) =>
                Html[i].img_src = None

\* a document of two blocks: the first item has a local image and a remote
\* URL, the second a remote URL only
C14Witness ==
    /\ MessageBuilt
    /\ Len(items) = 2
    /\ items[1].image # None /\ items[1].image_url # None
    /\ StartsWith(Html[1].img_src, CidScheme)
    /\ items[2].image = None /\ items[2].image_url # None
    /\ Html[2].img_src = items[2].image_url


\* C15: the excerpt block of every item is the first 300 characters of the
\* excerpt followed by the ellipsis when the excerpt is longer than 300
\* characters, and the excerpt itself when it has 300 characters or fewer.
C15ExcerptTruncation ==
    MessageBuilt =>
        \A i \in 1..Len(items) :
            IF Len(items[i].excerpt) > 300
            THEN Html[i].excerpt = SubSeq(items[i].excerpt, 1, 300) \o <<".",".",".">>
            ELSE Html[i].excerpt = items[i].excerpt

\* a document with an excerpt of 300 characters, rendered as it is, and one
\* of 301 characters, rendered as 300 characters and the ellipsis
C15Witness ==
    /\ MessageBuilt
    /\ Len(items) = 2
    /\ Len(items[1].excerpt) = 300 /\ Len(Html[1].excerpt) = 300
    /\ Len(items[2].excerpt) = 301 /\ Len(Html[2].excerpt) = 303


\* the positions of the whitespace that follows a '.', '!' or '?'
SplitSpaces(s) == {k \in 2..Len(s) : s[k] = " " /\ s[k - 1] \in {".", "!", "?"}}

\* a cleaned text bounded to its first 5 sentences
FirstFiveSentences(s) ==
    IF Cardinality(SplitSpaces(s)) >= 5
    THEN SubSeq(s, 1, (CHOOSE k \in SplitSpaces(s) :
                           Cardinality({j \in SplitSpaces(s) : j < k}) = 4) - 1)
    ELSE s

\* a period appended when the terminal punctuation is lacking
Punctuated(s) ==
    IF s # <<>> /\ s[Len(s)] \in {".", "!", "?"} THEN s ELSE s \o <<".">>

\* C16 as stated: the item summary is the tag-stripped provider summary when
\* that is non-empty, else the tag-stripped text, bounded to its first 5
\* sentences and with a period appended when terminal punctuation is lacking;
\* with neither, it is a placeholder that names the item title.
C16SummaryPolicy ==
    \A i \in 1..Len(items) :
        IF SummarySource(response.results[i]) # <<>>
        THEN items[i].summary =
                Punctuated(FirstFiveSentences(SummarySource(response.results[i])))
        ELSE Contains(items[i].summary, Format(ResultTitle(response.results[i])))

\* C16 amended: the same policy, its outcome with the Markdown emphasis
\* markers converted to tags, for every source text that does not match the
\* loading-screen pattern.
C16SummaryPolicyAmended ==
    \A i \in 1..Len(items) :
        IF SummarySource(response.results[i]) # <<>>
        THEN ~IsLoadingScreen(SummarySource(response.results[i])) =>
                items[i].summary = process_markdown(
                    Punctuated(FirstFiveSentences(SummarySource(response.results[i]))))
        ELSE items[i].summary = process_markdown(
                InfoPrefix \o Format(ResultTitle(response.results[i])) \o InfoSuffix)

\* a provider summary of more than five sentences next to a text: the item
\* summary is the first five sentences of the provider summary
C16Witness ==
    /\ Len(items) = 1
    /\ Cardinality(SplitSpaces(CleanSummary(response.results[1]))) > 5
    /\ Snippet(response.results[1]) # <<>>
    /\ Cardinality(SplitSpaces(items[1].summary)) = 4
    /\ StartsWith(CleanSummary(response.results[1]), items[1].summary)


\* the authority of an absolute http(s) URL: what lies between the scheme and
\* the path, query or fragment; empty when there is none
AuthorityFrom(u, p) == SubSeq(u, p, RunOf(u, p, {"/", "?", "#"}, FALSE))

AuthorityOf(u) ==
    IF StartsWith(u, HttpsScheme) THEN AuthorityFrom(u, Len(HttpsScheme) + 1)
    ELSE IF StartsWith(u, HttpScheme) THEN AuthorityFrom(u, Len(HttpScheme) + 1)
    ELSE <<>>

\* a well-formed absolute http(s) URL: the scheme, a host, no whitespace
WellFormedUrl(u) ==
    /\ AuthorityOf(u) # <<>>
    /\ \A k \in 1..Len(u) : ~IsSpace(u[k])

\* the registrable domain of a host under a suffix of one label, such as com:
\* its last two labels
RegistrableDomain(host) ==
    SubSeq(host,
           LastWhere(host, LastWhere(host, Len(host), {"."}, TRUE) - 1, {"."}, TRUE) + 1,
           Len(host))

\* C17: the favicon stored for an item is never empty; it is the provider
\* favicon when that is a well-formed absolute http(s) URL; otherwise the
\* favicon-service URL for the registrable domain of the item's source URL;
\* otherwise, with no source URL, the fixed placeholder reference.
C17FaviconOrder ==
    \A i \in 1..Len(items) :
        /\ Truthy(items[i].favicon)
        /\ WellFormedUrl(response.results[i].favicon) =>
            items[i].favicon = response.results[i].favicon
        /\ (~WellFormedUrl(response.results[i].favicon)
                /\ AuthorityOf(response.results[i].url) # <<>>) =>
            items[i].favicon =
                FaviconServicePrefix
                    \o RegistrableDomain(AuthorityOf(response.results[i].url))
                    \o FaviconServiceSuffix
        /\ (~WellFormedUrl(response.results[i].favicon)
                /\ ~Truthy(response.results[i].url)) =>
            items[i].favicon = DefaultFavicon

====
